---------------------------- MODULE Spec2Model ----------------------------
(***************************************************************************)
(* The agentic tool-use loop of NewsGenerator.generate_news_digest and the *)
(* retry wrapper NewsGenerator.generate_with_retry (src/src/               *)
(* news_generator.py).                                                     *)
(*                                                                         *)
(* One loop iteration (the provider call plus the handling of its          *)
(* response) is one action.  The provider and the search executor are the  *)
(* environment: the provider answers each call with any stop reason and    *)
(* any content drawn from Contents (or raises), the executor answers each  *)
(* search with a non-empty or an empty result list.  The provider stamps   *)
(* every block it emits with a fresh identifier (call number, position).   *)
(***************************************************************************)
EXTENDS Integers, Sequences, FiniteSets, TLC

VARIABLES
    enable_web_search,  \* self.enable_web_search (self.search_tool and tools follow it)
    messages,           \* the transcript sent to the provider
    message,            \* the most recent provider response
    iteration,          \* loop iterations completed by the for loop
    search_count,       \* the tool-call counter
    response_text,      \* the captured final text, or None
    pc,                 \* "idle" | "loop" | "after" | "done": position in generate_news_digest
    outcome,            \* how generate_news_digest ended: returned text or raised exception
    provider_calls,     \* calls of client.messages.create made in this run
    search_calls,       \* identifiers of the requests handed to search_tool.search_news, in order
    search_returns,     \* what search_news returned for each of those calls: "results" | "empty"
    deviations,         \* bookkeeping: non-plain provider/executor answers used in this run
    request,            \* the arguments of the most recent client.messages.create call
    all_calls,          \* bookkeeping: provider and executor calls made since the outermost call began
    caller,             \* "direct": generate_news_digest called alone; "retry": under generate_with_retry
    max_retries,        \* argument of generate_with_retry
    attempt,            \* loop variable of generate_with_retry
    last_exception,     \* last_exception of generate_with_retry
    wpc,                \* "loop" | "done": position in generate_with_retry
    wresult,            \* how generate_with_retry ended
    other,              \* the locals of a second generate_news_digest call in progress, or NoRun
    args,               \* the arguments of the function applied on its own, or None
    returned            \* what that function returned, or None

vars == <<enable_web_search, messages, message, iteration, search_count,
          response_text, pc, outcome, provider_calls, search_calls,
          search_returns, deviations, request, all_calls,
          caller, max_retries, attempt, last_exception, wpc, wresult,
          other, args, returned>>

runVars == <<messages, message, iteration, search_count, response_text, pc,
             outcome, provider_calls, search_calls, search_returns, deviations,
             request, all_calls>>

sideVars == <<other, args, returned>>

wrapVars == <<caller, max_retries, attempt, last_exception, wpc, wresult>>

---------------------------------------------------------------------------
(* Program constants *)

max_iterations == 8

max_searches == 6

(* Bounds of the model *)

\* At most this many answers of one run differ from the plain one (a
\* response holding a single web_search request whose search finds results).
MaxDeviations == 2

\* generate_with_retry is called with max_retries in 0..MaxRetries.
MaxRetries == 3

---------------------------------------------------------------------------
(* Values *)

None == "None"

MaxReachedText == "Maximum number of searches reached. Please create the digest based on the information gathered so far."

SearchResultsText == "Search results for 'query': ..."

NoResultsText == "No results found for 'query'. Try a different query or proceed with the information you have."

SteeringText == "You have gathered enough information. Please now create a comprehensive news digest based on all the search results you've collected."

NoTextError == "No text response received from Claude"

Prompt == "prompt"

\* Shapes of the content blocks a provider response is made of:
\* T a text block, WS a tool_use block naming web_search, OT a tool_use
\* block naming some other tool.
Contents ==
    { <<>>, <<"T">>, <<"T", "T">>, <<"OT", "T", "T">>, <<"OT">>,
      <<"WS">>, <<"WS", "WS">>, <<"T", "WS">>, <<"WS", "OT">> }

\* The responses used inside generate_with_retry.
RetryContents == { <<>>, <<"T">>, <<"WS">> }

\* what a search comes to: results found, nothing found, or a provider error
SearchOutcomes == {"results", "empty", "error"}

\* WebSearchTool.search_news: the list of results; a search-provider error
\* is caught inside and gives the empty list
search_news(out) == IF out = "error" THEN "empty" ELSE out

NoRun == [pc |-> "none"]

\* The block the provider emits for shape s at position i of its n-th response.
Stamp(s, n, i) ==
    LET tag == ToString(n) \o "_" \o ToString(i) IN
    CASE s = "T"  -> [type |-> "text", text |-> "text_" \o tag]
      [] s = "WS" -> [type |-> "tool_use", name |-> "web_search", id |-> "toolu_" \o tag]
      [] s = "OT" -> [type |-> "tool_use", name |-> "other_tool", id |-> "toolu_" \o tag]

Response(reason, shapes, n) ==
    [stop_reason |-> reason,
     content |-> [i \in 1..Len(shapes) |-> Stamp(shapes[i], n, i)]]

NoMessage == [stop_reason |-> "none", content |-> <<>>]

\* no provider call made yet
NoRequest == [messages |-> <<>>, tools |-> <<>>]

NoCalls == [provider |-> 0, search |-> 0]

NoOutcome == [kind |-> "none", value |-> None]

---------------------------------------------------------------------------
(* Helpers of generate_news_digest *)

\* for block in content: if block.type == "text": response_text = block.text; break
RECURSIVE FirstTextFrom(_, _)
FirstTextFrom(content, i) ==
    IF i > Len(content) THEN None
    ELSE IF content[i].type = "text" THEN content[i].text
    ELSE FirstTextFrom(content, i + 1)

\* looks at the first block only (message.content[0])
FirstTextHeadOnly(content) ==
    IF content # <<>> /\ content[1].type = "text" THEN content[1].text ELSE None

\* the loop over the blocks without its break: the last text block wins
RECURSIVE LastTextFrom(_, _)
LastTextFrom(content, i) ==
    IF i < 1 THEN None
    ELSE IF content[i].type = "text" THEN content[i].text
    ELSE LastTextFrom(content, i - 1)

FirstTextNoBreak(content) == LastTextFrom(content, Len(content))

FirstText(content) == FirstTextFrom(content, 1)

\* the tool name is not looked at: every tool_use block is served
RecognizedAnyTool(block) ==
    block.type = "tool_use" /\ enable_web_search

\* if tool_name == "web_search" and self.search_tool
Recognized(block) ==
    block.type = "tool_use" /\ block.name = "web_search" /\ enable_web_search

\* the budget check off by one
ExceededOffByOne(sc) == sc > max_searches + 1

\* the budget check left out
ExceededNever(sc) == FALSE

\* if search_count > max_searches
Exceeded(sc) == sc > max_searches

\* the else branch for an empty list left out
FormatResultsNoElse(out) == SearchResultsText

\* the formatting of search_results into result_text
FormatResults(out) ==
    IF out = "results" THEN SearchResultsText ELSE NoResultsText

\* the tool result names the tool instead of the call
ToolResultByName(id, text) ==
    [type |-> "tool_result", tool_use_id |-> "web_search", content |-> text]

ToolResult(id, text) ==
    [type |-> "tool_result", tool_use_id |-> id, content |-> text]

\* the result put in front of the list (tool_results.insert(0, ...))
AddResultAtFront(tool_results, result) == << result >> \o tool_results

\* the list assigned instead of appended to (tool_results = [{...}])
AddResultKeepsLast(tool_results, result) == << result >>

\* tool_results.append({...})
AddResult(tool_results, result) == Append(tool_results, result)

\* for block in message.content: ... (the tool-call processing loop), from
\* block i on; acc carries search_count, tool_results and the executor calls.
RECURSIVE ProcessBlocks(_, _, _, _)
ProcessBlocks(content, outs, i, acc) ==
    IF i > Len(content) THEN acc
    ELSE IF Recognized(content[i]) THEN
        LET sc == acc.search_count + 1
            search_results == search_news(outs[i])
            result_text == IF Exceeded(sc) THEN MaxReachedText
                           ELSE FormatResults(search_results)
        IN ProcessBlocks(content, outs, i + 1,
               [search_count |-> sc,
                tool_results |-> AddResult(acc.tool_results,
                                           ToolResult(content[i].id, result_text)),
                search_calls |-> IF Exceeded(sc) THEN acc.search_calls
                                 ELSE Append(acc.search_calls, content[i].id),
                search_returns |-> IF Exceeded(sc) THEN acc.search_returns
                                   ELSE Append(acc.search_returns, search_results)])
    ELSE ProcessBlocks(content, outs, i + 1, acc)

\* the tool definitions sent whether or not search is enabled
toolsAlways == << "web_search" >>

\* line 102: tools = [get_search_tool_definition()] if self.enable_web_search else None
\* (None is written as the empty list: both fail the test "if tools:")
tools == IF enable_web_search THEN << "web_search" >> ELSE <<>>

\* only the most recent turn is sent (messages[-1:])
CreateArgsLastTurn(msgs) ==
    [messages |-> SubSeq(msgs, Len(msgs), Len(msgs)), tools |-> tools]

\* lines 112-124: the arguments of client.messages.create; the tools
\* argument is passed only if tools is set (here: empty when not passed)
CreateArgs(msgs) == [messages |-> msgs, tools |-> tools]

AssistantTurn(content) ==
    [role |-> "assistant", ctype |-> "blocks", content |-> content]

\* the tool results appended under the role of the turn before them
ToolResultTurnAsAssistant(tool_results) ==
    [role |-> "assistant", ctype |-> "blocks", content |-> tool_results]

\* lines 186-189: the user turn holding the tool results
ToolResultTurn(tool_results) ==
    [role |-> "user", ctype |-> "blocks", content |-> tool_results]

SteeringTurn ==
    [role |-> "user", ctype |-> "text", content |-> SteeringText]

PromptTurn ==
    [role |-> "user", ctype |-> "text", content |-> Prompt]

\* the steering condition written with > instead of >=
ForceFinalStrict(sc) == sc > max_searches

\* the steering condition met one search early
ForceFinalEarly(sc) == sc >= max_searches - 1

\* if search_count >= max_searches (force generation after max searches)
ForceFinal(sc) == sc >= max_searches

\* the new turns put in front of the transcript (messages.insert(0, ...))
ExtendAtFront(msgs, turns) == turns \o msgs

\* messages.append(...), once per turn
Extend(msgs, turns) == msgs \o turns

\* the turns appended without the test for an empty tool_results list
AppendedTurnsNoBreak(content, tool_results, sc) ==
    IF ForceFinal(sc)
    THEN << AssistantTurn(content), ToolResultTurn(tool_results), SteeringTurn >>
    ELSE << AssistantTurn(content), ToolResultTurn(tool_results) >>

\* the turns one tool_use step appends to messages
AppendedTurns(content, tool_results, sc) ==
    IF tool_results = <<>> THEN << AssistantTurn(content) >>
    ELSE IF ForceFinal(sc)
         THEN << AssistantTurn(content), ToolResultTurn(tool_results), SteeringTurn >>
         ELSE << AssistantTurn(content), ToolResultTurn(tool_results) >>

\* the iteration bound off by one
LoopContinuesOffByOne(it) == it <= max_iterations

\* for iteration in range(max_iterations)
LoopContinues(it) == it < max_iterations

\* the loop never falls through to the code after it
AfterIterationNoExit(it) == "loop"

\* where control goes after an iteration that did not break
AfterIteration(it) == IF LoopContinues(it) THEN "loop" ELSE "after"

\* bookkeeping: what an answer costs of the deviation budget
RECURSIVE CountEmpty(_, _)
CountEmpty(tool_results, i) ==
    IF i > Len(tool_results) THEN 0
    ELSE (IF tool_results[i].content = NoResultsText THEN 1 ELSE 0)
         + CountEmpty(tool_results, i + 1)

Cost(shapes, tool_results) ==
    (IF shapes = <<"WS">> THEN 0 ELSE 1) + CountEmpty(tool_results, 1)

---------------------------------------------------------------------------
(* generate_news_digest *)

\* the counter and the transcript kept on the instance, never reset
StartRunKeepsState ==
    /\ messages' = Append(messages, PromptTurn)
    /\ message' = NoMessage
    /\ iteration' = 0
    /\ search_count' = search_count
    /\ response_text' = None
    /\ outcome' = NoOutcome
    /\ provider_calls' = 0
    /\ search_calls' = <<>>
    /\ search_returns' = <<>>
    /\ deviations' = 0
    /\ request' = NoRequest
    /\ all_calls' = all_calls
    /\ pc' = "loop"

\* lines 100-108: the state at the start of the agentic loop
StartRun ==
    /\ messages' = << PromptTurn >>
    /\ message' = NoMessage
    /\ iteration' = 0
    /\ search_count' = 0
    /\ response_text' = None
    /\ outcome' = NoOutcome
    /\ provider_calls' = 0
    /\ search_calls' = <<>>
    /\ search_returns' = <<>>
    /\ deviations' = 0
    /\ request' = NoRequest
    /\ all_calls' = all_calls
    /\ pc' = "loop"

\* the provider call raises: the exception leaves generate_news_digest
ProviderError ==
    /\ pc = "loop"
    /\ LoopContinues(iteration)
    /\ provider_calls' = provider_calls + 1
    /\ outcome' = [kind |-> "raise", value |-> "APIError"]
    /\ pc' = "done"
    /\ UNCHANGED <<messages, message, iteration, search_count, response_text,
                   search_calls, search_returns, deviations>>
    /\ request' = CreateArgs(messages)
    /\ all_calls' = [all_calls EXCEPT !.provider = @ + 1]

\* the final response appended to the transcript as an assistant turn
EndTurnAppends(conts) ==
    /\ pc = "loop"
    /\ LoopContinues(iteration)
    /\ \E shapes \in conts :
         LET resp == Response("end_turn", shapes, provider_calls + 1) IN
         /\ message' = resp
         /\ response_text' = FirstText(resp.content)
         /\ messages' = Extend(messages, << AssistantTurn(resp.content) >>)
    /\ provider_calls' = provider_calls + 1
    /\ pc' = "after"
    /\ request' = CreateArgs(messages)
    /\ all_calls' = [all_calls EXCEPT !.provider = @ + 1]
    /\ UNCHANGED <<iteration, search_count, outcome, search_calls,
                   search_returns, deviations>>

\* stop_reason == "end_turn": capture the first text block and break
EndTurn(conts) ==
    /\ pc = "loop"
    /\ LoopContinues(iteration)
    /\ \E shapes \in conts :
         LET resp == Response("end_turn", shapes, provider_calls + 1) IN
         /\ message' = resp
         /\ response_text' = FirstText(resp.content)
    /\ provider_calls' = provider_calls + 1
    /\ pc' = "after"
    /\ UNCHANGED <<messages, iteration, search_count, outcome, search_calls,
                   search_returns, deviations>>
    /\ request' = CreateArgs(messages)
    /\ all_calls' = [all_calls EXCEPT !.provider = @ + 1]

\* stop_reason == "tool_use": append the assistant turn, process the tool
\* calls, append the tool results (or break), append the steering turn
ToolUse(conts, budget) ==
    /\ pc = "loop"
    /\ LoopContinues(iteration)
    /\ \E shapes \in conts :
       \E outs \in [1..Len(shapes) -> SearchOutcomes] :
         LET resp == Response("tool_use", shapes, provider_calls + 1)
             done == ProcessBlocks(resp.content, outs, 1,
                         [search_count |-> search_count,
                          tool_results |-> <<>>,
                          search_calls |-> search_calls,
                          search_returns |-> search_returns])
             cost == IF done.tool_results = <<>> THEN 0
                     ELSE Cost(shapes, done.tool_results)
         IN
         /\ deviations + cost <= budget
         /\ deviations' = deviations + cost
         /\ message' = resp
         /\ messages' = Extend(messages,
                AppendedTurns(resp.content, done.tool_results, done.search_count))
         /\ search_count' = done.search_count
         /\ search_calls' = done.search_calls
         /\ search_returns' = done.search_returns
         /\ all_calls' = [provider |-> all_calls.provider + 1,
                          search |-> all_calls.search
                                     + Len(done.search_calls) - Len(search_calls)]
         /\ IF done.tool_results = <<>>
            THEN /\ pc' = "after"
                 /\ iteration' = iteration
            ELSE /\ pc' = AfterIteration(iteration + 1)
                 /\ iteration' = iteration + 1
    /\ provider_calls' = provider_calls + 1
    /\ request' = CreateArgs(messages)
    /\ UNCHANGED <<response_text, outcome>>

\* any other stop reason handled like a tool step without tools: the loop
\* goes on to the next iteration
OtherStopContinues(conts) ==
    /\ pc = "loop"
    /\ LoopContinues(iteration)
    /\ \E shapes \in conts :
         message' = Response("max_tokens", shapes, provider_calls + 1)
    /\ provider_calls' = provider_calls + 1
    /\ iteration' = iteration + 1
    /\ pc' = AfterIteration(iteration + 1)
    /\ request' = CreateArgs(messages)
    /\ all_calls' = [all_calls EXCEPT !.provider = @ + 1]
    /\ UNCHANGED <<messages, search_count, response_text, outcome,
                   search_calls, search_returns, deviations>>

\* any other stop reason: break
OtherStop(conts) ==
    /\ pc = "loop"
    /\ LoopContinues(iteration)
    /\ \E shapes \in conts :
         message' = Response("max_tokens", shapes, provider_calls + 1)
    /\ provider_calls' = provider_calls + 1
    /\ pc' = "after"
    /\ UNCHANGED <<messages, iteration, search_count, response_text, outcome,
                   search_calls, search_returns, deviations>>
    /\ request' = CreateArgs(messages)
    /\ all_calls' = [all_calls EXCEPT !.provider = @ + 1]

\* the last extraction left out
SalvagedNot == response_text

\* the text salvaged from the assistant turns kept in the transcript
\* rather than from the last response
SalvagedFromTranscript ==
    IF response_text # None THEN response_text
    ELSE LET withText == { k \in 1..Len(messages) :
                            /\ messages[k].role = "assistant"
                            /\ FirstText(messages[k].content) # None }
         IN IF withText = {} THEN FirstText(message.content)
            ELSE FirstText(messages[CHOOSE k \in withText :
                                       \A j \in withText : k <= j].content)

\* lines 206-219: salvage a text from the last response, raise or return
Salvaged == IF response_text = None THEN FirstText(message.content)
            ELSE response_text

Finish ==
    /\ pc = "after"
    /\ response_text' = Salvaged
    /\ outcome' = IF Salvaged = None
                  THEN [kind |-> "raise", value |-> NoTextError]
                  ELSE [kind |-> "return", value |-> Salvaged]
    /\ pc' = "done"
    /\ UNCHANGED <<messages, message, iteration, search_count, provider_calls,
                   search_calls, search_returns, deviations,
                   request, all_calls>>

---------------------------------------------------------------------------
(* One direct call of generate_news_digest *)

Init ==
    /\ enable_web_search \in BOOLEAN
    /\ messages = << PromptTurn >>
    /\ message = NoMessage
    /\ iteration = 0
    /\ search_count = 0
    /\ response_text = None
    /\ outcome = NoOutcome
    /\ provider_calls = 0
    /\ search_calls = <<>>
    /\ search_returns = <<>>
    /\ deviations = 0
    /\ request = NoRequest
    /\ all_calls = NoCalls
    /\ pc = "loop"
    /\ caller = "direct"
    /\ max_retries = 0
    /\ attempt = 0
    /\ last_exception = None
    /\ wpc = "done"
    /\ wresult = NoOutcome
    /\ other = NoRun
    /\ args = None
    /\ returned = None

Next ==
    \/ ProviderError /\ UNCHANGED <<enable_web_search, sideVars, wrapVars>>
    \/ EndTurn(Contents) /\ UNCHANGED <<enable_web_search, sideVars, wrapVars>>
    \/ ToolUse(Contents, MaxDeviations) /\ UNCHANGED <<enable_web_search, sideVars, wrapVars>>
    \/ OtherStop(Contents) /\ UNCHANGED <<enable_web_search, sideVars, wrapVars>>
    \/ Finish /\ UNCHANGED <<enable_web_search, sideVars, wrapVars>>

Spec == Init /\ [][Next]_vars

\* Every provider call and every search returns (or raises): a step that
\* can be taken is eventually taken.
FairSpec == Spec /\ WF_vars(Next)

---------------------------------------------------------------------------
(* generate_with_retry *)

\* the exception object raised by the (a+1)-th attempt
ExceptionOf(msg, a) == msg \o " #" \o ToString(a + 1)

\* the attempt bound off by one
AttemptsRemainOffByOne(a, n) == a <= n

\* for attempt in range(max_retries)
AttemptsRemain(a, n) == a < n

\* keeps the first exception instead of the last
CapturedFirst(last, e) == IF last = None THEN e ELSE last

\* except Exception as e: last_exception = e
Captured(last, e) == e

InitRetry ==
    /\ enable_web_search \in BOOLEAN
    /\ messages = <<>>
    /\ message = NoMessage
    /\ iteration = 0
    /\ search_count = 0
    /\ response_text = None
    /\ outcome = NoOutcome
    /\ provider_calls = 0
    /\ search_calls = <<>>
    /\ search_returns = <<>>
    /\ deviations = 0
    /\ request = NoRequest
    /\ all_calls = NoCalls
    /\ pc = "idle"
    /\ caller = "retry"
    /\ max_retries \in 0..MaxRetries
    /\ attempt = 0
    /\ last_exception = None
    /\ wpc = "loop"
    /\ wresult = NoOutcome
    /\ other = NoRun
    /\ args = None
    /\ returned = None

\* return self.generate_news_digest(...): the call enters the agentic loop
CallGenerate ==
    /\ wpc = "loop"
    /\ pc = "idle"
    /\ AttemptsRemain(attempt, max_retries)
    /\ StartRun
    /\ UNCHANGED <<enable_web_search, sideVars, wrapVars>>

\* the call fails while building the prompt (prompt_template.format raises)
PromptError ==
    /\ wpc = "loop"
    /\ pc = "idle"
    /\ AttemptsRemain(attempt, max_retries)
    /\ messages' = <<>>
    /\ message' = NoMessage
    /\ iteration' = 0
    /\ search_count' = 0
    /\ response_text' = None
    /\ provider_calls' = 0
    /\ search_calls' = <<>>
    /\ search_returns' = <<>>
    /\ deviations' = 0
    /\ request' = NoRequest
    /\ all_calls' = all_calls
    /\ outcome' = [kind |-> "raise", value |-> "KeyError"]
    /\ pc' = "done"
    /\ UNCHANGED <<enable_web_search, sideVars, wrapVars>>

\* generate_news_digest returned: generate_with_retry returns its value
AttemptReturns ==
    /\ wpc = "loop"
    /\ pc = "done"
    /\ outcome.kind = "return"
    /\ wresult' = outcome
    /\ wpc' = "done"
    /\ UNCHANGED <<enable_web_search, sideVars, runVars, caller, max_retries, attempt,
                   last_exception>>

\* generate_news_digest raised: capture the exception, go to the next attempt
AttemptFails ==
    /\ wpc = "loop"
    /\ pc = "done"
    /\ outcome.kind = "raise"
    /\ last_exception' = Captured(last_exception, ExceptionOf(outcome.value, attempt))
    /\ attempt' = attempt + 1
    /\ pc' = "idle"
    /\ UNCHANGED <<enable_web_search, sideVars, messages, message, iteration, search_count,
                   response_text, outcome, provider_calls, search_calls,
                   search_returns, deviations, request, all_calls, caller, max_retries, wpc, wresult>>

\* the for loop is exhausted: raise last_exception (raising None is a TypeError)
RaiseLast ==
    /\ wpc = "loop"
    /\ pc = "idle"
    /\ ~AttemptsRemain(attempt, max_retries)
    /\ wresult' = IF last_exception = None
                  THEN [kind |-> "raise", value |-> "TypeError"]
                  ELSE [kind |-> "raise", value |-> last_exception]
    /\ wpc' = "done"
    /\ UNCHANGED <<enable_web_search, sideVars, runVars, caller, max_retries, attempt,
                   last_exception>>

NextRetry ==
    \/ CallGenerate
    \/ PromptError
    \/ ProviderError /\ UNCHANGED <<enable_web_search, sideVars, wrapVars>>
    \/ EndTurn(RetryContents) /\ UNCHANGED <<enable_web_search, sideVars, wrapVars>>
    \/ ToolUse(RetryContents, 0) /\ UNCHANGED <<enable_web_search, sideVars, wrapVars>>
    \/ OtherStop(RetryContents) /\ UNCHANGED <<enable_web_search, sideVars, wrapVars>>
    \/ Finish /\ UNCHANGED <<enable_web_search, sideVars, wrapVars>>
    \/ AttemptReturns
    \/ AttemptFails
    \/ RaiseLast

SpecRetry == InitRetry /\ [][NextRetry]_vars

---------------------------------------------------------------------------
(* Reading the transcript *)

Range(seq) == { seq[i] : i \in 1..Len(seq) }

\* positions <<turn, index>> of the tool_use blocks of the assistant turns
RequestPositions ==
    UNION { { <<k, i>> : i \in { j \in 1..Len(messages[k].content) :
                                   messages[k].content[j].type = "tool_use" } } :
            k \in { t \in 1..Len(messages) : messages[t].role = "assistant" } }

\* positions <<turn, index>> of the tool_result blocks of the user turns
ResultPositions ==
    UNION { { <<k, i>> : i \in 1..Len(messages[k].content) } :
            k \in { t \in 1..Len(messages) :
                      messages[t].role = "user" /\ messages[t].ctype = "blocks" } }

BlockAt(p) == messages[p[1]].content[p[2]]

Before(p, q) == p[1] < q[1] \/ (p[1] = q[1] /\ p[2] < q[2])

IsSteering(turn) ==
    turn.role = "user" /\ turn.ctype = "text" /\ turn.content = SteeringText

HasTextBlock(content) == \E i \in 1..Len(content) : content[i].type = "text"

\* the text of the first text block of content, read off the blocks
IsFirstTextOf(text, content) ==
    \E i \in 1..Len(content) :
        /\ content[i].type = "text"
        /\ content[i].text = text
        /\ \A j \in 1..(i - 1) : content[j].type # "text"

---------------------------------------------------------------------------
(* Claims *)

\* C1: in one run of generate_news_digest the number of calls made to the
\* search executor never exceeds max_searches, whatever the provider sends.
C1_ExecutorCallsBounded == Len(search_calls) <= max_searches

\* a run in which a request arrived after the budget was used up
C1_Witness == Len(search_calls) = max_searches /\ search_count > max_searches

\* C2: in one run the number of provider calls never exceeds max_iterations.
C2_ProviderCallsBounded == provider_calls <= max_iterations

\* a run that used every iteration
C2_Witness == provider_calls = max_iterations /\ pc = "done"

\* C3: every run eventually ends, returning a text or failing, also when
\* the provider requests tools on every response.
C3_Terminates == <>(pc = "done" /\ outcome.kind \in {"return", "raise"})

\* a finished run whose every response asked for tools
C3_Witness ==
    /\ pc = "done"
    /\ provider_calls = max_iterations
    /\ message.stop_reason = "tool_use"
    /\ Len(messages) >= 2 * max_iterations

\* the turns a step appended to the transcript
NewTurns == SubSeq(messages', Len(messages) + 1, Len(messages'))

\* the step in which the tool-call count reaches the configured maximum
ReachesMaximum == search_count < max_searches /\ search_count' >= max_searches

\* C4 (as stated): if the tool-call count reaches the configured maximum
\* during the loop, the next user turn appended to the transcript is the
\* fixed steering instruction, not a tool-result turn.
C4_NextUserTurnIsSteering ==
    [][ReachesMaximum =>
          \E i \in 1..Len(NewTurns) :
              /\ IsSteering(NewTurns[i])
              /\ \A j \in 1..(i - 1) : NewTurns[j].role # "user"]_vars

\* C4 (amended): the step in which the tool-call count reaches the
\* configured maximum appends the assistant turn, then the tool-result user
\* turn of that step, then the fixed steering instruction as the last turn;
\* the steering instruction is the next user turn after the tool results.
C4_SteeringFollowsToolResults ==
    [][ReachesMaximum =>
          /\ Len(NewTurns) = 3
          /\ NewTurns[1].role = "assistant"
          /\ NewTurns[2].role = "user" /\ NewTurns[2].ctype = "blocks"
          /\ NewTurns[2].content # <<>>
          /\ \A i \in 1..Len(NewTurns[2].content) :
                 NewTurns[2].content[i].type = "tool_result"
          /\ IsSteering(NewTurns[3])]_vars

\* the transcript right after the count reached the maximum
C4_Witness ==
    /\ search_count = max_searches
    /\ Len(messages) >= 3
    /\ IsSteering(messages[Len(messages)])
    /\ messages[Len(messages) - 1].ctype = "blocks"

\* executor calls made before the request at position p was processed
ExecutedBefore(p) ==
    LET executed == Range(search_calls) IN
    Cardinality({ q \in RequestPositions :
                    Before(q, p) /\ BlockAt(q).id \in executed })

\* the request at position p was answered in the next turn with this text
AnsweredWith(p, text) ==
    \E r \in ResultPositions :
        /\ r[1] = p[1] + 1
        /\ BlockAt(r).tool_use_id = BlockAt(p).id
        /\ BlockAt(r).content = text

\* C5: a web_search request processed when max_searches executor calls
\* were already made is not handed to the executor; a tool_result with its
\* call identifier and the fixed 'maximum number of searches reached' text
\* is emitted instead.  (A request with max_searches executed requests before
\* it exists only once the call log holds max_searches entries.)
C5_OverBudgetNotExecuted ==
    Len(search_calls) >= max_searches =>
        \A p \in RequestPositions :
            (Recognized(BlockAt(p)) /\ ExecutedBefore(p) >= max_searches) =>
                /\ BlockAt(p).id \notin Range(search_calls)
                /\ AnsweredWith(p, MaxReachedText)

\* a transcript holding a request refused for the budget, in a response
\* that also held the request that used the budget up
C5_Witness ==
    \E p \in RequestPositions :
        /\ Recognized(BlockAt(p))
        /\ ExecutedBefore(p) >= max_searches
        /\ AnsweredWith(p, MaxReachedText)
        /\ p[2] = 2

\* C6: every tool_result's call identifier matches exactly one tool_request
\* that precedes it in the transcript and was not answered before; no
\* tool_result is orphaned or duplicated.
C6_ResultsMatchRequests ==
    LET requests == RequestPositions
        results == ResultPositions
    IN \A r \in results :
        /\ BlockAt(r).type = "tool_result"
        /\ Cardinality({ q \in requests :
                           /\ BlockAt(q).id = BlockAt(r).tool_use_id
                           /\ Before(q, r) }) = 1
        /\ \A r2 \in results :
               BlockAt(r2).tool_use_id = BlockAt(r).tool_use_id => r2 = r

\* a transcript with two results in one turn and an unanswered request
C6_Witness ==
    /\ \E r \in ResultPositions : r[2] = 2
    /\ \E q \in RequestPositions :
           \A r \in ResultPositions : BlockAt(r).tool_use_id # BlockAt(q).id
    /\ Cardinality(ResultPositions) >= 3

\* the run has seen exactly one kind of history: no tool step was handled
\* (nothing but the prompt is in the transcript) and the response at hand
\* is final and holds a text block, so the first response was that one
FirstResponseFinalWithText ==
    /\ provider_calls >= 1
    /\ Len(messages) = 1
    /\ message.stop_reason = "end_turn"
    /\ HasTextBlock(message.content)

\* C7: if the first response has stop reason end_turn and holds a text
\* block, the run makes exactly one provider call, never invokes the
\* executor and returns the first text block of that response unchanged.
C7_FirstResponseFinal ==
    FirstResponseFinalWithText =>
        /\ provider_calls = 1
        /\ search_calls = <<>>
        /\ pc \in {"after", "done"}
        /\ pc = "done" => /\ outcome.kind = "return"
                          /\ IsFirstTextOf(outcome.value, message.content)

\* a run ended by a first final response whose first text block comes
\* after a non-text block and before another text block
C7_Witness ==
    /\ FirstResponseFinalWithText
    /\ pc = "done"
    /\ Len(message.content) = 3
    /\ message.content[1].type = "tool_use"
    /\ outcome.value = message.content[2].text

\* search is enabled, the first response requested one web_search call and
\* nothing else was requested, and the response at hand is final with a text
ToolThenFinal ==
    /\ enable_web_search
    /\ Len(messages) = 3
    /\ Cardinality(RequestPositions) = 1
    /\ \A p \in RequestPositions : BlockAt(p).name = "web_search"
    /\ message.stop_reason = "end_turn"
    /\ HasTextBlock(message.content)

\* C8: with search enabled, when the first response requests one
\* web_search call and the second response is final, the run returns the
\* text block of the second response, makes exactly two provider calls and
\* invokes the executor exactly once.
C8_ToolThenFinal ==
    ToolThenFinal =>
        /\ provider_calls = 2
        /\ Len(search_calls) = 1
        /\ \A p \in RequestPositions : search_calls[1] = BlockAt(p).id
        /\ pc \in {"after", "done"}
        /\ pc = "done" => /\ outcome.kind = "return"
                          /\ IsFirstTextOf(outcome.value, message.content)

\* such a run, the first response holding a text before its request and
\* the second response holding two texts
C8_Witness ==
    /\ ToolThenFinal
    /\ pc = "done"
    /\ Len(messages[2].content) = 2
    /\ Len(message.content) = 2
    /\ outcome.value = message.content[1].text

\* the step that ends a run
RunEnds == pc # "done" /\ pc' = "done"

\* the loop ended with no final text captured and no text block in the
\* most recent response
LoopEndedWithoutText ==
    pc = "after" /\ response_text = None /\ ~HasTextBlock(message.content)

FailsNoFinalResponse ==
    outcome'.kind = "raise" /\ outcome'.value = NoTextError

\* C9 (as stated): a run fails with 'No text response received from Claude'
\* exactly when the loop ended with no final text captured and no text block
\* in the most recent response; in every other terminating case it returns a
\* text.
C9_NoFinalResponseOrText ==
    [][RunEnds =>
          /\ FailsNoFinalResponse <=> LoopEndedWithoutText
          /\ ~LoopEndedWithoutText => outcome'.kind = "return"]_vars

\* C9 (amended): a run fails with 'No text response received from Claude'
\* exactly when the loop ended with no final text captured and no text block
\* in the most recent response; in every other case in which the loop ended
\* it returns the first text block of the most recent response; a run ended
\* by a provider call that raised fails with that exception.
C9_NoFinalResponseOrTextOrRaise ==
    [][RunEnds =>
          /\ FailsNoFinalResponse <=> LoopEndedWithoutText
          /\ (pc = "after" /\ ~LoopEndedWithoutText) =>
                 /\ outcome'.kind = "return"
                 /\ IsFirstTextOf(outcome'.value, message.content)
          /\ pc # "after" =>
                 /\ outcome'.kind = "raise"
                 /\ outcome'.value # NoTextError]_vars

\* a run that used every iteration on tool requests and failed for want of
\* a text
C9_Witness ==
    /\ pc = "done"
    /\ outcome.kind = "raise" /\ outcome.value = NoTextError
    /\ provider_calls = max_iterations
    /\ message.stop_reason = "tool_use"

\* C10: generate_with_retry with max_retries = n >= 1 returns the value of
\* the first successful attempt when one of the first n attempts succeeds,
\* and raises the failure of the n-th attempt when all n attempts fail.
C10_RetryOutcome ==
    (wpc = "done" /\ max_retries >= 1) =>
        /\ wresult.kind = "return" <=> outcome.kind = "return"
        /\ wresult.kind = "return" =>
               /\ wresult.value = outcome.value
               /\ attempt < max_retries
        /\ wresult.kind # "return" =>
               /\ wresult.kind = "raise"
               /\ outcome.kind = "raise"
               /\ attempt = max_retries
               /\ wresult.value = ExceptionOf(outcome.value, max_retries - 1)

\* fail, fail, succeed with max_retries = 3
C10_Witness ==
    /\ wpc = "done"
    /\ max_retries = 3
    /\ attempt = 2
    /\ wresult.kind = "return"
    /\ last_exception # None

---------------------------------------------------------------------------
(* Claims on generate_with_retry *)

\* calls of generate_news_digest made so far by generate_with_retry
GenerateCalls == attempt + (IF pc = "idle" THEN 0 ELSE 1)

\* C11: generate_with_retry invokes generate at most max_retries times,
\* makes no further attempt after the first success, and after a failed
\* attempt makes another one whenever attempts remain, whatever the failure
\* was (provider error, no text, prompt-building error).
C11_RetryAttempts ==
    /\ [](GenerateCalls <= max_retries)
    /\ []((wpc = "loop" /\ pc = "idle" /\ attempt < max_retries)
            => (wresult = NoOutcome /\ ENABLED CallGenerate))
    /\ [][ /\ (pc = "done" /\ outcome.kind = "return")
               => (pc' = "done" /\ attempt' = attempt /\ outcome' = outcome)
           /\ (pc = "done" /\ outcome.kind = "raise" /\ wpc = "loop")
               => (wpc' = "loop" /\ pc' = "idle" /\ attempt' = attempt + 1)
           /\ wpc = "done" => UNCHANGED vars ]_vars

\* a third attempt under way after a provider error and a prompt error
C11_Witness ==
    /\ max_retries = 3
    /\ attempt = 2
    /\ pc = "loop"
    /\ provider_calls = 1
    /\ last_exception = ExceptionOf("KeyError", 1)

---------------------------------------------------------------------------
(* Claims on the budget counters and the transcript *)

\* C12: in every reachable state of a run both budget counters are bounded
\* by their configured maximum: iterations performed <= max_iterations and
\* the tool-call counter search_count <= max_searches, also when a single
\* response carries more tool requests than the remaining budget.
C12_CountersBounded ==
    iteration <= max_iterations /\ search_count <= max_searches


\* the step that starts an invocation of generate_news_digest
GenerateStarts == pc = "idle" /\ pc' # "idle"

\* C13: every invocation of generate (each retry attempt included) starts
\* with the iteration counter and the tool-call counter at zero and a
\* transcript holding only the new initial prompt; no count, turn or
\* captured text of a previous invocation carries over.
C13_FreshInvocation ==
    [][GenerateStarts =>
          /\ iteration' = 0
          /\ search_count' = 0
          /\ provider_calls' = 0
          /\ search_calls' = <<>>
          /\ response_text' = None
          /\ message' = NoMessage
          /\ pc' = "loop" => (messages' = << PromptTurn >> /\ outcome' = NoOutcome)]_vars

\* a second attempt about to make its first provider call, after a first
\* attempt that called the provider and ended without a text
C13_Witness ==
    /\ attempt = 1
    /\ pc = "loop"
    /\ provider_calls = 0
    /\ messages = << PromptTurn >>
    /\ last_exception = ExceptionOf(NoTextError, 0)


SameTurn(a, b) == a.role = b.role /\ a.ctype = b.ctype /\ a.content = b.content

\* C14: the transcript is append-only during a run: every step leaves it
\* unchanged or appends turns at its end; the transcript before a step is a
\* prefix of the transcript after it.
C14_AppendOnly ==
    [][/\ Len(messages') >= Len(messages)
       /\ \A i \in 1..Len(messages) : SameTurn(messages'[i], messages[i])]_vars

\* a transcript that grew by three tool steps, the last one adding the
\* steering turn
C14_Witness ==
    /\ Len(messages) >= 8
    /\ IsSteering(messages[Len(messages)])
    /\ messages[1] = PromptTurn


\* the executor calls a step made: indices into search_calls' / search_returns'
NewCalls == (Len(search_calls) + 1)..Len(search_calls')

\* a step in which a search failed or found nothing
EmptySearchStep == \E k \in NewCalls : search_returns'[k] = "empty"

\* every search of the step that came back empty is answered, in the
\* tool-result turn of the step, with the 'No results found' text under its
\* call identifier; the counter went up; the run has not failed
EmptySearchAbsorbed ==
    /\ Len(NewTurns) >= 2
    /\ NewTurns[2].role = "user" /\ NewTurns[2].ctype = "blocks"
    /\ \A k \in NewCalls :
           search_returns'[k] = "empty" =>
               \E i \in 1..Len(NewTurns[2].content) :
                   /\ NewTurns[2].content[i].tool_use_id = search_calls'[k]
                   /\ NewTurns[2].content[i].content = NoResultsText
    /\ search_count' - search_count >= Len(search_calls') - Len(search_calls)
    /\ search_count' > search_count
    /\ outcome' = NoOutcome
    /\ iteration' = iteration + 1

\* C15: a tool execution that fails or finds nothing never fails the run:
\* the search yields an empty list, the request is answered with a
\* tool_result holding the 'No results found' text for its call identifier,
\* the tool-call counter is still incremented, and the loop goes on to the
\* next provider call.  (A search is never executed in the last iteration:
\* every earlier iteration used at least one of the max_searches searches.)
C15_EmptySearchGoesOn ==
    [][EmptySearchStep => (EmptySearchAbsorbed /\ pc' = "loop")]_vars

\* a run waiting for its next provider call after a search that came back
\* empty
C15_Witness ==
    /\ pc = "loop"
    /\ search_returns # <<>>
    /\ search_returns[Len(search_returns)] = "empty"
    /\ messages[Len(messages)].ctype = "blocks"
    /\ messages[Len(messages)].content[1].content = NoResultsText
    /\ search_count = Len(search_calls)


\* the call identifiers of the web_search requests of an assistant turn, in
\* the order the provider emitted them
RequestedIds(content) ==
    LET wanted == SelectSeq(content,
                      LAMBDA b : b.type = "tool_use" /\ b.name = "web_search")
    IN [i \in 1..Len(wanted) |-> wanted[i].id]

AnsweredIds(tool_results) ==
    [i \in 1..Len(tool_results) |-> tool_results[i].tool_use_id]

\* the position, among positions ps, of the request with this identifier
PositionOf(id, ps) == CHOOSE p \in ps : BlockAt(p).id = id

\* C16: the tool requests of one response are processed one at a time in
\* the order the provider emitted them: the executor calls happen in block
\* order, and the tool_result blocks of the resulting user turn are in the
\* order of their requests.
C16_BlockOrder ==
    /\ \A k \in 2..Len(messages) :
           (messages[k].role = "user" /\ messages[k].ctype = "blocks") =>
               /\ messages[k - 1].role = "assistant"
               /\ AnsweredIds(messages[k].content)
                      = RequestedIds(messages[k - 1].content)
    /\ LET requests == RequestPositions IN
       \A a \in 1..(Len(search_calls) - 1) :
           Before(PositionOf(search_calls[a], requests),
                  PositionOf(search_calls[a + 1], requests))

\* a response with two requests, both executed and both answered
C16_Witness ==
    \E k \in 2..Len(messages) :
        /\ messages[k].role = "user" /\ messages[k].ctype = "blocks"
        /\ Len(messages[k].content) = 2
        /\ \E a \in 1..(Len(search_calls) - 1) :
               /\ search_calls[a] = messages[k].content[1].tool_use_id
               /\ search_calls[a + 1] = messages[k].content[2].tool_use_id

---------------------------------------------------------------------------
(* Two calls of generate_news_digest in progress at once *)

\* One call is running (its locals are the run variables); the locals of
\* the other call are kept in other until a context switch resumes it.

\* the locals of the running call
RunState ==
    [messages |-> messages, message |-> message, iteration |-> iteration,
     search_count |-> search_count, response_text |-> response_text,
     pc |-> pc, outcome |-> outcome, provider_calls |-> provider_calls,
     search_calls |-> search_calls, search_returns |-> search_returns,
     deviations |-> deviations,
     request |-> request, all_calls |-> all_calls]

\* the counter kept on the instance: a resumed call sees the value the
\* other call left
SharedCounter(own, current) == current

\* search_count is a local of the call: a resumed call sees its own value
LocalCounter(own, current) == own

InitPair ==
    /\ enable_web_search \in BOOLEAN
    /\ messages = << PromptTurn >>
    /\ message = NoMessage
    /\ iteration = 0
    /\ search_count = 0
    /\ response_text = None
    /\ outcome = NoOutcome
    /\ provider_calls = 0
    /\ search_calls = <<>>
    /\ search_returns = <<>>
    /\ deviations = 0
    /\ request = NoRequest
    /\ all_calls = NoCalls
    /\ pc = "loop"
    /\ caller = "pair"
    /\ max_retries = 0
    /\ attempt = 0
    /\ last_exception = None
    /\ wpc = "done"
    /\ wresult = NoOutcome
    /\ other = [run |-> 2,
                locals |-> [messages |-> << PromptTurn >>, message |-> NoMessage,
                            iteration |-> 0, search_count |-> 0,
                            response_text |-> None, pc |-> "loop",
                            outcome |-> NoOutcome, provider_calls |-> 0,
                            search_calls |-> <<>>, search_returns |-> <<>>,
                            deviations |-> 0,
                            request |-> NoRequest, all_calls |-> NoCalls]]
    /\ args = None
    /\ returned = None

\* the scheduler suspends the running call and resumes the other one
Switch ==
    /\ other.locals.pc # "done"
    /\ messages' = other.locals.messages
    /\ message' = other.locals.message
    /\ iteration' = other.locals.iteration
    /\ search_count' = LocalCounter(other.locals.search_count, search_count)
    /\ response_text' = other.locals.response_text
    /\ pc' = other.locals.pc
    /\ outcome' = other.locals.outcome
    /\ provider_calls' = other.locals.provider_calls
    /\ search_calls' = other.locals.search_calls
    /\ search_returns' = other.locals.search_returns
    /\ deviations' = other.locals.deviations
    /\ request' = other.locals.request
    /\ all_calls' = other.locals.all_calls
    /\ other' = [run |-> 3 - other.run, locals |-> RunState]
    /\ UNCHANGED <<enable_web_search, wrapVars, args, returned>>

NextPair ==
    \/ Switch
    \/ ProviderError /\ UNCHANGED <<enable_web_search, sideVars, wrapVars>>
    \/ EndTurn(RetryContents) /\ UNCHANGED <<enable_web_search, sideVars, wrapVars>>
    \/ ToolUse(RetryContents, 0) /\ UNCHANGED <<enable_web_search, sideVars, wrapVars>>
    \/ OtherStop(RetryContents) /\ UNCHANGED <<enable_web_search, sideVars, wrapVars>>
    \/ Finish /\ UNCHANGED <<enable_web_search, sideVars, wrapVars>>

SpecPair == InitPair /\ [][NextPair]_vars

\* a step of a call running alone: the next-state relation of Spec on the
\* locals of the call
LoneStep ==
    \/ ProviderError
    \/ EndTurn(Contents)
    \/ ToolUse(Contents, MaxDeviations)
    \/ OtherStop(Contents)
    \/ Finish

\* a context switch that hands each call exactly the locals it had
CleanSwitch ==
    /\ RunState' = other.locals
    /\ other'.locals = RunState
    /\ other'.run # other.run

\* C17: two digest generations whose steps are interleaved in any order do
\* not interfere: every step is a step of one call alone, on that call's
\* own transcript, counters and result, and leaves the other call's locals
\* as they were; suspending and resuming a call changes none of its locals.
C17_NoInterference ==
    [][ \/ CleanSwitch
        \/ (other' = other /\ LoneStep) ]_vars

\* both calls in the middle of their loops, with different counts
C17_Witness ==
    /\ pc = "loop"
    /\ other.locals.pc = "loop"
    /\ provider_calls >= 2
    /\ other.locals.provider_calls >= 1
    /\ search_count > other.locals.search_count
    /\ other.run = 1

---------------------------------------------------------------------------
(* Formatting of search results, lines 166-176 *)

\* Bound: the longest list of search results that is formatted
MaxResults == 3

Titles == {"t1", "t2"}
Snippets == {"s1"}
\* a result's url may be missing: the empty string or None
Urls == {"", None, "u1"}

SearchResult == [title : Titles, snippet : Snippets, url : Urls]

ResultLists == UNION {[1..n -> SearchResult] : n \in 0..MaxResults}

\* Python truthiness of a string or None
Truthy(v) == v # "" /\ v # None

\* One line of the text, ended by "\n": the f-string it comes from (kind)
\* and the values substituted into it
Line(kind, n, text) == [kind |-> kind, n |-> n, text |-> text]

\* enumerate(search_results) counting from 0
OrdinalFromZero(k) == k

\* enumerate(search_results, 1): the k-th result (k from 0) is numbered k+1
Ordinal(k) == k + 1

\* the url line, written for every result
UrlLineAlways(result) == << Line("url", 0, result.url) >>

\* lines 172-173: the url line, only if the url is truthy
UrlLine(result) ==
    IF Truthy(result.url) THEN << Line("url", 0, result.url) >> ELSE <<>>

\* lines 170-174: the lines of one result
EntryLines(k, result) ==
    << Line("entry", Ordinal(k), result.title),
       Line("snippet", 0, result.snippet) >>
    \o UrlLine(result)
    \o << Line("blank", 0, "") >>

RECURSIVE EntriesFrom(_, _)
EntriesFrom(results, k) ==
    IF k >= Len(results) THEN <<>>
    ELSE EntryLines(k, results[k + 1]) \o EntriesFrom(results, k + 1)

\* lines 167-176: the text of the tool result
FormatSearchResults(query, results) ==
    IF results # <<>>
    THEN << Line("header", 0, query), Line("blank", 0, "") >>
         \o EntriesFrom(results, 0)
    ELSE << Line("none", 0, query) >>

InitFormat ==
    /\ enable_web_search = TRUE
    /\ messages = <<>>
    /\ message = NoMessage
    /\ iteration = 0
    /\ search_count = 0
    /\ response_text = None
    /\ outcome = NoOutcome
    /\ provider_calls = 0
    /\ search_calls = <<>>
    /\ search_returns = <<>>
    /\ deviations = 0
    /\ request = NoRequest
    /\ all_calls = NoCalls
    /\ pc = "format"
    /\ caller = "format"
    /\ max_retries = 0
    /\ attempt = 0
    /\ last_exception = None
    /\ wpc = "done"
    /\ wresult = NoOutcome
    /\ other = NoRun
    /\ args \in ResultLists
    /\ returned = None

\* search_news has returned args; the text of the tool result is built
FormatStep ==
    /\ pc = "format"
    /\ returned' = FormatSearchResults("query", args)
    /\ pc' = "done"
    /\ UNCHANGED <<enable_web_search, messages, message, iteration,
                   search_count, response_text, outcome, provider_calls,
                   search_calls, search_returns, deviations, request, all_calls, wrapVars,
                   other, args>>

NextFormat == FormatStep

SpecFormat == InitFormat /\ [][NextFormat]_vars

\* positions of the lines of a given kind in a text
LinesOfKind(lines, kind) == {p \in 1..Len(lines) : lines[p].kind = kind}

\* position of the i-th line of a given kind
NthOfKind(lines, kind, i) ==
    CHOOSE p \in LinesOfKind(lines, kind) :
        Cardinality({q \in LinesOfKind(lines, kind) : q <= p}) = i

\* C18: for a non-empty list of search results the text has exactly one
\* entry per result, in input order, numbered 1, 2, ... without gaps; each
\* entry is the ordinal and title line, then the snippet line, then a URL
\* line exactly when the result has a non-empty url.
C18_OneEntryPerResult ==
    (pc = "done" /\ caller = "format" /\ args # <<>>) =>
        /\ Cardinality(LinesOfKind(returned, "entry")) = Len(args)
        /\ Cardinality(LinesOfKind(returned, "snippet")) = Len(args)
        /\ Cardinality(LinesOfKind(returned, "url"))
               = Cardinality({i \in 1..Len(args) : Truthy(args[i].url)})
        /\ \A i \in 1..Len(args) :
               LET p == NthOfKind(returned, "entry", i) IN
               /\ returned[p] = Line("entry", i, args[i].title)
               /\ returned[p + 1] = Line("snippet", 0, args[i].snippet)
               /\ IF Truthy(args[i].url)
                  THEN returned[p + 2] = Line("url", 0, args[i].url)
                  ELSE returned[p + 2].kind # "url"

\* three results formatted, with and without a url
C18_Witness ==
    /\ pc = "done"
    /\ caller = "format"
    /\ Len(args) = 3
    /\ args[1].url = ""
    /\ args[2].url = "u1"
    /\ args[3].url = None
    /\ args[1].title # args[2].title
    /\ Len(returned) = 12

---------------------------------------------------------------------------
(* Building the prompt, lines 66-95 *)

\* Bound: the longest list of topics
MaxTopics == 2

Topics == {"a", "b"}
TopicLists == UNION {[1..n -> Topics] : n \in 0..MaxTopics}

\* One part of a text: where it comes from (kind) and its lines
Part(kind, body) == [kind |-> kind, body |-> body]

\* A template is a sequence of literal texts and replacement fields; the
\* last one has a field that format(topics=...) is given no value for
Templates ==
    { << Part("text", <<"head">>), Part("field", <<"topics">>),
         Part("text", <<"tail">>) >>,
      << Part("field", <<"topics">>) >>,
      << Part("text", <<"head">>), Part("field", <<"date">>) >> }

\* language codes: None, empty, the default in three spellings, codes of
\* language_names in both cases, and a code language_names does not have
Languages == {None, "", "en", "EN", "En", "zh", "ZH", "fr", "sv", "Sv"}

\* str.lower() on the codes of Languages
Lower(l) ==
    CASE l \in {"EN", "En"} -> "en"
      [] l = "ZH" -> "zh"
      [] l = "Sv" -> "sv"
      [] OTHER -> l

\* str.upper() on the codes of Languages
Upper(l) ==
    CASE l \in {"en", "En"} -> "EN"
      [] l = "zh" -> "ZH"
      [] l = "fr" -> "FR"
      [] l \in {"sv", "Sv"} -> "SV"
      [] OTHER -> l

\* lines 78-91: English name and name in the native script (written here
\* in Latin letters)
language_names ==
    [code \in {"zh", "es", "fr", "ja", "de", "ko", "pt", "ru", "ar", "hi",
               "it", "nl"} |->
        CASE code = "zh" -> <<"Chinese", "Zhongwen">>
          [] code = "es" -> <<"Spanish", "Espanol">>
          [] code = "fr" -> <<"French", "Francais">>
          [] code = "ja" -> <<"Japanese", "Nihongo">>
          [] code = "de" -> <<"German", "Deutsch">>
          [] code = "ko" -> <<"Korean", "Hangugeo">>
          [] code = "pt" -> <<"Portuguese", "Portugues">>
          [] code = "ru" -> <<"Russian", "Russkiy">>
          [] code = "ar" -> <<"Arabic", "Al-Arabiyya">>
          [] code = "hi" -> <<"Hindi", "Hindi">>
          [] code = "it" -> <<"Italian", "Italiano">>
          [] code = "nl" -> <<"Dutch", "Nederlands">>]

SearchInstruction == "IMPORTANT: Use the web_search tool to find the most recent AI news from 2025. ..."

\* line 68: "\n".join([f"- {topic}" for topic in topics])
topics_formatted(topics) == [i \in 1..Len(topics) |-> "- " \o topics[i]]

\* line 71: can prompt_template.format(topics=...) fill every field
Formattable(template) ==
    \A i \in 1..Len(template) :
        template[i].kind = "field" => template[i].body = <<"topics">>

\* line 71: prompt_template.format(topics=topics_formatted)
FormatTemplate(template, topics) ==
    [i \in 1..Len(template) |->
        IF template[i].kind = "field"
        THEN Part("topics", topics_formatted(topics))
        ELSE template[i]]

\* the name looked up with the code as given
LanguageNameNoLower(language) ==
    IF language \in DOMAIN language_names
    THEN language_names[language]
    ELSE << Upper(language) >>

\* line 94: language_names.get(language.lower(), language.upper())
LanguageName(language) ==
    IF Lower(language) \in DOMAIN language_names
    THEN language_names[Lower(language)]
    ELSE << Upper(language) >>

\* line 93: if language and language.lower() != "en"
WantsDirective(language) == Truthy(language) /\ Lower(language) # "en"

\* lines 71-95: the prompt
BuildPrompt(template, topics, language, search) ==
    FormatTemplate(template, topics)
    \o (IF search THEN << Part("search", << SearchInstruction >>) >> ELSE <<>>)
    \o (IF WantsDirective(language)
        THEN << Part("language", LanguageName(language)) >>
        ELSE <<>>)

InitPrompt ==
    /\ enable_web_search \in BOOLEAN
    /\ messages = <<>>
    /\ message = NoMessage
    /\ iteration = 0
    /\ search_count = 0
    /\ response_text = None
    /\ outcome = NoOutcome
    /\ provider_calls = 0
    /\ search_calls = <<>>
    /\ search_returns = <<>>
    /\ deviations = 0
    /\ request = NoRequest
    /\ all_calls = NoCalls
    /\ pc = "prompt"
    /\ caller = "prompt"
    /\ max_retries = 0
    /\ attempt = 0
    /\ last_exception = None
    /\ wpc = "done"
    /\ wresult = NoOutcome
    /\ other = NoRun
    /\ args \in [topics : TopicLists, prompt_template : Templates,
                 language : Languages]
    /\ returned = None

\* lines 66-100: the prompt is built and becomes the first user turn
PromptStep ==
    /\ pc = "prompt"
    /\ Formattable(args.prompt_template)
    /\ returned' = BuildPrompt(args.prompt_template, args.topics,
                               args.language, enable_web_search)
    /\ pc' = "sent"
    /\ UNCHANGED <<enable_web_search, messages, message, iteration,
                   search_count, response_text, outcome, provider_calls,
                   search_calls, search_returns, deviations, request, all_calls, wrapVars,
                   other, args>>

\* line 71 raises KeyError: no prompt is sent (lines 221-223 re-raise)
PromptRaises ==
    /\ pc = "prompt"
    /\ ~Formattable(args.prompt_template)
    /\ outcome' = [kind |-> "raise", value |-> "KeyError"]
    /\ pc' = "done"
    /\ UNCHANGED <<enable_web_search, messages, message, iteration,
                   search_count, response_text, provider_calls,
                   search_calls, search_returns, deviations, request, all_calls, wrapVars,
                   sideVars>>

NextPrompt == PromptStep \/ PromptRaises

SpecPrompt == InitPrompt /\ [][NextPrompt]_vars


\* the parts of the prompt after the formatted template
AfterTemplate == SubSeq(returned, Len(args.prompt_template) + 1, Len(returned))

\* the prompt starts with the template, the bulleted topics in the place
\* of the field
TemplateSubstituted ==
    /\ Len(returned) >= Len(args.prompt_template)
    /\ \A i \in 1..Len(args.prompt_template) :
           IF args.prompt_template[i].kind = "field"
           THEN /\ returned[i].kind = "topics"
                /\ Len(returned[i].body) = Len(args.topics)
                /\ \A j \in 1..Len(args.topics) :
                       returned[i].body[j] = "- " \o args.topics[j]
           ELSE returned[i] = args.prompt_template[i]

\* then the search instruction exactly when search is enabled, then a
\* language directive exactly when directive holds, and nothing else
TailIs(directive) ==
    LET tail == AfterTemplate
        s == IF enable_web_search THEN 1 ELSE 0
        d == IF directive THEN 1 ELSE 0
    IN  /\ Len(tail) = s + d
        /\ enable_web_search => tail[1] = Part("search", << SearchInstruction >>)
        /\ directive => tail[s + 1].kind = "language"

\* the directive of the prompt has the English and the native name
NamesBoth ==
    \A i \in 1..Len(returned) :
        returned[i].kind = "language" =>
            \E code \in DOMAIN language_names :
                returned[i].body = language_names[code]

\* C19 (as stated): the prompt sent is the template with the bulleted
\* topic list substituted, then the search instruction block exactly when
\* search is enabled, then a language directive exactly when the language
\* is not en (compared case-insensitively); for every such language the
\* directive names it by its English name and its native script.
C19_PromptAsStated ==
    pc = "sent" =>
        /\ TemplateSubstituted
        /\ TailIs(Lower(args.language) # "en")
        /\ NamesBoth

\* C19 (amended): the prompt sent is the template with the bulleted topic
\* list substituted, then the search instruction block exactly when search
\* is enabled, then a language directive exactly when the language is
\* non-empty and not en (compared case-insensitively); for the twelve
\* codes of language_names (compared case-insensitively) the directive
\* names the language by its English name and its native script, for any
\* other code by the upper-cased code.
C19_PromptParts ==
    pc = "sent" =>
        /\ TemplateSubstituted
        /\ TailIs(Truthy(args.language) /\ Lower(args.language) # "en")
        /\ \A i \in 1..Len(returned) :
               returned[i].kind = "language" =>
                   IF Lower(args.language) \in DOMAIN language_names
                   THEN returned[i].body = language_names[Lower(args.language)]
                   ELSE returned[i].body = << Upper(args.language) >>

\* search enabled, two topics, a listed code in upper case
C19_Witness ==
    /\ pc = "sent"
    /\ enable_web_search
    /\ args.language = "ZH"
    /\ args.topics = <<"a", "b">>
    /\ Len(args.prompt_template) = 3
    /\ Len(returned) = 5
    /\ returned[5] = Part("language", <<"Chinese", "Zhongwen">>)

---------------------------------------------------------------------------
(* The notifiers: EmailNotifier.send and WebhookNotifier.send *)

\* Bound: the number of send calls on the two notifiers
MaxSends == 2

\* a setting taken from the arguments or the environment: unset, empty, set
Settings == {None, "", "set"}

\* exceptions a send can meet, all of them subclasses of Exception
Exceptions == {"Timeout", "HTTPError", "ConnectionError", "ResendError",
               "AttributeError", "TypeError"}

\* the class hierarchy of requests.exceptions and the builtins
IsA(exc, class) ==
    \/ class = "Exception"
    \/ exc = class
    \/ class = "RequestException"
         /\ exc \in {"Timeout", "HTTPError", "ConnectionError"}

\* what the delivery service does with one call
EmailDeliveries == {"dict", "none", "ResendError"}
WebhookDeliveries == {"200", "404", "500", "Timeout", "ConnectionError", "TypeError"}

\* the end of one send: the value returned or the exception raised, whether
\* the delivery call was made, and whether it completed without error
Sent(kind, value, attempted, completed) ==
    [kind |-> kind, value |-> value, attempted |-> attempted,
     completed |-> completed]

\* the first except clause that matches decides; each clause returns False
HandledBy(clauses, exc, attempted) ==
    IF \E i \in 1..Len(clauses) : IsA(exc, clauses[i])
    THEN Sent("return", FALSE, attempted, FALSE)
    ELSE Sent("raise", exc, attempted, FALSE)

\* only the API key is looked at
EmailConfiguredKeyOnly(cfg) == Truthy(cfg.resend_api_key)

\* email_notifier.py line 63: all([resend_api_key, email_from, email_to])
EmailConfigured(cfg) ==
    /\ Truthy(cfg.resend_api_key)
    /\ Truthy(cfg.email_from)
    /\ Truthy(cfg.email_to)

\* email_notifier.py lines 63-94
EmailSendResult(cfg, html_ok, delivery) ==
    IF ~EmailConfigured(cfg) THEN Sent("return", FALSE, FALSE, FALSE)
    ELSE IF ~html_ok
         THEN HandledBy(<<"Exception">>, "TypeError", FALSE)
    ELSE IF delivery = "ResendError"
         THEN HandledBy(<<"Exception">>, "ResendError", TRUE)
    ELSE IF delivery = "none"
         THEN [HandledBy(<<"Exception">>, "AttributeError", TRUE)
                   EXCEPT !.completed = TRUE]
    ELSE Sent("return", TRUE, TRUE, TRUE)

\* webhook_notifier.py line 54: if not self.webhook_url
WebhookConfigured(cfg) == Truthy(cfg.webhook_url)

WebhookClauses == <<"Timeout", "RequestException", "Exception">>

\* webhook_notifier.py lines 54-101
WebhookSendResult(cfg, data_ok, delivery) ==
    IF ~WebhookConfigured(cfg) THEN Sent("return", FALSE, FALSE, FALSE)
    ELSE IF ~data_ok
         THEN HandledBy(WebhookClauses, "TypeError", FALSE)
    ELSE IF delivery \in {"Timeout", "ConnectionError", "TypeError"}
         THEN HandledBy(WebhookClauses, delivery, TRUE)
    ELSE IF delivery # "200"
         THEN HandledBy(WebhookClauses, "HTTPError", TRUE)
    ELSE Sent("return", TRUE, TRUE, TRUE)

NoSend == [pc |-> "notify", sends |-> 0, notifier |-> None]

InitNotify ==
    /\ enable_web_search = TRUE
    /\ messages = <<>>
    /\ message = NoMessage
    /\ iteration = 0
    /\ search_count = 0
    /\ response_text = None
    /\ outcome = NoOutcome
    /\ provider_calls = 0
    /\ search_calls = <<>>
    /\ search_returns = <<>>
    /\ deviations = 0
    /\ request = NoRequest
    /\ all_calls = NoCalls
    /\ pc = "notify"
    /\ caller = "notify"
    /\ max_retries = 0
    /\ attempt = 0
    /\ last_exception = None
    /\ wpc = "done"
    /\ wresult = NoOutcome
    /\ other = NoSend
    /\ args \in [resend_api_key : Settings, email_from : Settings,
                 email_to : Settings, webhook_url : Settings]
    /\ returned = None

\* one call of EmailNotifier.send
EmailSend ==
    /\ pc = "notify"
    /\ other.sends < MaxSends
    /\ \E html_ok \in BOOLEAN, delivery \in EmailDeliveries :
           returned' = EmailSendResult(args, html_ok, delivery)
    /\ other' = [other EXCEPT !.sends = @ + 1, !.notifier = "email"]
    /\ UNCHANGED <<enable_web_search, runVars, wrapVars, args>>

\* one call of WebhookNotifier.send
WebhookSend ==
    /\ pc = "notify"
    /\ other.sends < MaxSends
    /\ \E data_ok \in BOOLEAN, delivery \in WebhookDeliveries :
           returned' = WebhookSendResult(args, data_ok, delivery)
    /\ other' = [other EXCEPT !.sends = @ + 1, !.notifier = "webhook"]
    /\ UNCHANGED <<enable_web_search, runVars, wrapVars, args>>

NextNotify == EmailSend \/ WebhookSend

SpecNotify == InitNotify /\ [][NextNotify]_vars

\* is the notifier of the last send fully configured
LastConfigured ==
    IF other.notifier = "email"
    THEN args.resend_api_key \notin {None, ""}
         /\ args.email_from \notin {None, ""}
         /\ args.email_to \notin {None, ""}
    ELSE args.webhook_url \notin {None, ""}

\* C20: EmailNotifier.send and WebhookNotifier.send always end by
\* returning a boolean and never raise: False without any delivery attempt
\* when the notifier is not fully configured, False when the delivery
\* attempt fails, and True only after a delivery call that completed
\* without error.
C20_SendReturnsBool ==
    (caller = "notify" /\ other.sends > 0) =>
        /\ returned.kind = "return"
        /\ returned.value \in BOOLEAN
        /\ ~LastConfigured => (returned.value = FALSE /\ ~returned.attempted)
        /\ (returned.attempted /\ ~returned.completed) => returned.value = FALSE
        /\ returned.value = TRUE => (returned.attempted /\ returned.completed)

\* a second send, by the webhook notifier, ends in True while the email
\* notifier is not configured
C20_Witness ==
    /\ caller = "notify"
    /\ other.sends = 2
    /\ other.notifier = "webhook"
    /\ args.email_to = ""
    /\ returned = Sent("return", TRUE, TRUE, TRUE)

\* the most recent response has a stop reason that is neither end_turn nor
\* tool_use
OtherResponse == message.stop_reason \notin {"end_turn", "tool_use", "none"}

\* C21: when a provider response has a stop reason that is neither
\* end_turn nor tool_use, the loop stops at once: the step that receives it
\* does not invoke the executor, no provider call and no executor call
\* follows, and the run's outcome is the first text block of that response
\* if it has one and 'No text response received from Claude' otherwise.
C21_OtherStopEndsLoop ==
    /\ [](OtherResponse =>
            /\ pc \in {"after", "done"}
            /\ pc = "done" =>
                 IF HasTextBlock(message.content)
                 THEN /\ outcome.kind = "return"
                      /\ IsFirstTextOf(outcome.value, message.content)
                 ELSE outcome = [kind |-> "raise", value |-> NoTextError])
    /\ [][OtherResponse' =>
            /\ search_calls' = search_calls
            /\ provider_calls' <= provider_calls + 1
            /\ OtherResponse => /\ provider_calls' = provider_calls
                                /\ message' = message]_vars

\* a run ended by such a response after two tool steps, returning its
\* first text block, which is not its first block
C21_Witness ==
    /\ pc = "done"
    /\ OtherResponse
    /\ provider_calls = 3
    /\ Len(search_calls) = 2
    /\ Len(message.content) = 3
    /\ message.content[1].type = "tool_use"
    /\ outcome = [kind |-> "return", value |-> message.content[2].text]

\* the most recent response asked for tools and none of its blocks is a
\* web_search request that can be served: it yields no tool_result
DeadEnd ==
    /\ message.stop_reason = "tool_use"
    /\ \A i \in 1..Len(message.content) : ~Recognized(message.content[i])

\* C22: when a tool_use response yields zero tool_result blocks (no
\* tool_use block, only unrecognized tool names, or search disabled), the
\* loop halts without another provider call and without appending an empty
\* user turn or a steering turn; the transcript then ends with that
\* response's assistant turn.
C22_DeadEndHalts ==
    /\ [](DeadEnd =>
            /\ pc \in {"after", "done"}
            /\ messages[Len(messages)].role = "assistant"
            /\ messages[Len(messages)].content = message.content)
    /\ [][DeadEnd' =>
            IF DeadEnd /\ message' = message
            THEN provider_calls' = provider_calls /\ messages' = messages
            ELSE /\ provider_calls' = provider_calls + 1
                 /\ Len(messages') = Len(messages) + 1]_vars

\* search enabled and the budget used up: a response naming only another
\* tool ends the run, with no steering turn after its assistant turn
C22_Witness ==
    /\ pc = "done"
    /\ DeadEnd
    /\ enable_web_search
    /\ search_count >= max_searches
    /\ Len(message.content) = 3
    /\ message.content[1].type = "tool_use"
    /\ messages[Len(messages)].role = "assistant"
    /\ outcome.kind = "return"

\* the step that receives and handles a tool_use response
ToolStep ==
    /\ provider_calls' = provider_calls + 1
    /\ message' # message
    /\ message'.stop_reason = "tool_use"

\* indexes of the blocks of the response received that request another tool
OtherToolRequests ==
    { i \in 1..Len(message'.content) :
        /\ message'.content[i].type = "tool_use"
        /\ message'.content[i].name # "web_search" }

\* indexes of the blocks of the response received that request web_search
SearchRequests ==
    { i \in 1..Len(message'.content) :
        /\ message'.content[i].type = "tool_use"
        /\ message'.content[i].name = "web_search" }

\* the identifiers a turn's tool_result blocks answer, as a set
AnsweredIn(turn) ==
    IF turn.role = "user" /\ turn.ctype = "blocks"
    THEN { turn.content[i].tool_use_id : i \in 1..Len(turn.content) }
    ELSE {}

\* a request for another tool gets no tool_result and no executor call and
\* leaves the counter alone
OtherToolsIgnored ==
    /\ \A i \in OtherToolRequests :
          /\ message'.content[i].id \notin Range(search_calls')
          /\ \A k \in 1..Len(NewTurns) :
                 message'.content[i].id \notin AnsweredIn(NewTurns[k])
    /\ search_count' - search_count
           = (IF enable_web_search THEN Cardinality(SearchRequests) ELSE 0)
    /\ Len(search_calls') - Len(search_calls) <= Cardinality(SearchRequests)

\* the user turn of the step holds one tool_result per web_search request
OneResultPerSearchRequest ==
    /\ Len(NewTurns) >= 2
    /\ NewTurns[2].role = "user" /\ NewTurns[2].ctype = "blocks"
    /\ Len(NewTurns[2].content) = Cardinality(SearchRequests)
    /\ AnsweredIn(NewTurns[2])
           = { message'.content[i].id : i \in SearchRequests }

Mixed == enable_web_search /\ OtherToolRequests # {} /\ SearchRequests # {}

\* C23 (as stated): a tool_use block naming a tool other than web_search
\* produces no tool_result, causes no executor call and does not change the
\* tool-call counter; in a response that mixes recognized and unrecognized
\* requests the loop continues, with the user turn holding exactly one
\* tool_result per recognized request and none for the unrecognized ones.
C23_UnknownToolsIgnored ==
    [][ToolStep =>
          /\ OtherToolsIgnored
          /\ Mixed => (pc' = "loop" /\ OneResultPerSearchRequest)]_vars

\* C23 (amended): as stated, except that after a mixed response the loop
\* continues only if an iteration remains: the loop does not break, the
\* iteration is counted, and the next provider call is made unless this was
\* the last of the max_iterations iterations.
C23_UnknownToolsIgnoredWithinBound ==
    [][ToolStep =>
          /\ OtherToolsIgnored
          /\ Mixed =>
               /\ iteration' = iteration + 1
               /\ pc' = (IF iteration' < max_iterations THEN "loop" ELSE "after")
               /\ OneResultPerSearchRequest]_vars

\* a mixed response was handled and the loop is at its next iteration
C23_Witness ==
    /\ pc = "loop"
    /\ enable_web_search
    /\ Len(message.content) = 2
    /\ message.content[1].type = "tool_use"
    /\ message.content[2].type = "tool_use"
    /\ message.content[1].name = "web_search"
    /\ message.content[2].name = "other_tool"
    /\ messages[Len(messages)].ctype = "blocks"
    /\ Len(messages[Len(messages)].content) = 1
    /\ search_count = provider_calls
    /\ provider_calls >= 2

\* positions of the steering turns among the turns a step appended
SteeringAppended == { k \in 1..Len(NewTurns) : IsSteering(NewTurns[k]) }

\* the step appended a user turn holding at least one tool_result
ProducedToolResults ==
    \E k \in 1..Len(NewTurns) :
        /\ NewTurns[k].role = "user"
        /\ NewTurns[k].ctype = "blocks"
        /\ NewTurns[k].content # <<>>

\* C24: a steering user turn is appended in a tool-handling step exactly
\* when that step produced at least one tool_result and the tool-call
\* counter is at or above max_searches at the end of the step; it is then
\* the turn directly after that step's tool_result turn, exactly one is
\* appended per such step, no other step appends one, and a run whose
\* counter stays below max_searches never contains a steering turn.
C24_SteeringExactlyWhen ==
    /\ [][IF ToolStep
          THEN /\ (SteeringAppended # {})
                      <=> (ProducedToolResults /\ search_count' >= max_searches)
               /\ SteeringAppended # {} =>
                      /\ SteeringAppended = {3}
                      /\ Len(NewTurns) = 3
                      /\ NewTurns[2].role = "user"
                      /\ NewTurns[2].ctype = "blocks"
          ELSE SteeringAppended = {}]_vars
    /\ [](search_count < max_searches =>
            \A k \in 1..Len(messages) : ~IsSteering(messages[k]))

\* two steps in a row appended a steering turn each
C24_Witness ==
    /\ Cardinality({ k \in 1..Len(messages) : IsSteering(messages[k]) }) = 2
    /\ search_count > max_searches
    /\ IsSteering(messages[Len(messages)])

\* the step in which client.messages.create is called
ProviderCall == provider_calls' = provider_calls + 1

\* C25: every provider call of a run carries the full current transcript,
\* and carries the tool definitions exactly when search is enabled; when
\* search is disabled the executor is never invoked, and a tool_use
\* response then ends the loop without any tool_result.
C25_CallCarriesTranscript ==
    /\ [][ProviderCall =>
            /\ request'.messages = messages
            /\ (request'.tools # <<>>) <=> enable_web_search
            /\ enable_web_search => request'.tools = << "web_search" >>]_vars
    /\ [](~enable_web_search =>
            /\ search_calls = <<>>
            /\ all_calls.search = 0
            /\ ResultPositions = {}
            /\ message.stop_reason = "tool_use" => pc \in {"after", "done"})

\* the third call of a run with search enabled carried the five turns of
\* the transcript and the tool definitions
C25_Witness ==
    /\ enable_web_search
    /\ provider_calls = 3
    /\ Len(request.messages) = 5
    /\ request.messages[5].role = "user"
    /\ request.tools = << "web_search" >>
    /\ Len(messages) > 5

\* C26: handling a response with stop reason end_turn or with an
\* unrecognized stop reason leaves the transcript and the tool-call counter
\* unchanged: the response is not appended as an assistant turn, and only a
\* tool_use response ever adds turns (one assistant turn, then at most one
\* tool_result user turn and at most one steering user turn).
C26_OnlyToolStepsAddTurns ==
    [][IF ToolStep
       THEN /\ SubSeq(messages', 1, Len(messages)) = messages
            /\ Len(NewTurns) \in 1..3
            /\ NewTurns[1].role = "assistant"
            /\ NewTurns[1].content = message'.content
            /\ Len(NewTurns) >= 2 =>
                   /\ NewTurns[2].role = "user"
                   /\ NewTurns[2].ctype = "blocks"
                   /\ \A i \in 1..Len(NewTurns[2].content) :
                          NewTurns[2].content[i].type = "tool_result"
            /\ Len(NewTurns) = 3 => IsSteering(NewTurns[3])
       ELSE /\ messages' = messages
            /\ search_count' = search_count]_vars

\* a final response with a text came after two tool steps and the
\* transcript still ends with the tool results of the second
C26_Witness ==
    /\ message.stop_reason = "end_turn"
    /\ HasTextBlock(message.content)
    /\ provider_calls = 3
    /\ Len(messages) = 5
    /\ messages[5].role = "user"
    /\ search_count = 3
    /\ pc = "done"

\* C27: at every provider call of a run, the transcript's first turn is
\* the user turn holding the initial prompt and its last turn has role
\* user; an assistant turn is never the last turn of a transcript sent to
\* the provider.
C27_TranscriptShapeAtCall ==
    [][ProviderCall =>
          LET sent == request'.messages IN
          /\ sent # <<>>
          /\ sent[1].role = "user"
          /\ sent[1].ctype = "text"
          /\ sent[1].content = Prompt
          /\ sent[Len(sent)].role = "user"
          /\ sent[Len(sent)].role # "assistant"]_vars

\* the last call of a run that used every iteration: the transcript sent
\* ended with a steering turn
C27_Witness ==
    /\ provider_calls = max_iterations
    /\ Len(request.messages) >= 2 * max_iterations
    /\ IsSteering(request.messages[Len(request.messages)])
    /\ request.messages[1].content = Prompt

\* the tool_result blocks of turn k of a transcript that answer identifier id
ResultsFor(sent, k, id) ==
    IF k <= Len(sent) /\ sent[k].role = "user" /\ sent[k].ctype = "blocks"
    THEN { i \in 1..Len(sent[k].content) : sent[k].content[i].tool_use_id = id }
    ELSE {}

\* C28: at every provider call after the first, each web_search tool_use
\* block in the transcript (with search enabled) has been answered by
\* exactly one tool_result with its call identifier, located in the user
\* turn immediately following the assistant turn that holds the request; no
\* such request is left unanswered or answered in another turn.
C28_RequestsAnsweredAtCall ==
    [][(ProviderCall /\ provider_calls >= 1 /\ enable_web_search) =>
          LET sent == request'.messages IN
          \A k \in 1..Len(sent) :
              sent[k].role = "assistant" =>
                  \A i \in 1..Len(sent[k].content) :
                      (sent[k].content[i].type = "tool_use"
                         /\ sent[k].content[i].name = "web_search") =>
                          /\ Cardinality(ResultsFor(sent, k + 1,
                                                    sent[k].content[i].id)) = 1
                          /\ \A t \in 1..Len(sent) :
                                 t # k + 1 =>
                                     ResultsFor(sent, t,
                                                sent[k].content[i].id) = {}]_vars

\* a call whose transcript holds a response with two web_search requests,
\* answered by the two results of the next turn
C28_Witness ==
    /\ enable_web_search
    /\ provider_calls >= 3
    /\ \E k \in 2..(Len(request.messages) - 1) :
           /\ request.messages[k].role = "assistant"
           /\ Len(request.messages[k].content) = 2
           /\ request.messages[k].content[1].type = "tool_use"
           /\ request.messages[k].content[2].type = "tool_use"
           /\ request.messages[k].content[2].name = "web_search"
           /\ Len(request.messages[k + 1].content) = 2

\* the texts of the text blocks of the responses kept in the transcript
\* other than the most recent response
EarlierTexts ==
    UNION { { messages[k].content[i].text :
                i \in { j \in 1..Len(messages[k].content) :
                          messages[k].content[j].type = "text" } } :
            k \in { t \in 1..Len(messages) :
                      /\ messages[t].role = "assistant"
                      /\ messages[t].content # message.content } }

\* C29: whenever a run returns a text, that text is the first text block
\* of the most recent provider response of the run, whatever that
\* response's stop reason; text blocks of earlier responses are never
\* returned.
C29_ReturnsTextOfLastResponse ==
    (pc = "done" /\ outcome.kind = "return") =>
        /\ IsFirstTextOf(outcome.value, message.content)
        /\ outcome.value \notin EarlierTexts

\* a run returned the text of a response with an unrecognized stop
\* reason, after an earlier response that held a text too
C29_Witness ==
    /\ pc = "done"
    /\ outcome.kind = "return"
    /\ message.stop_reason = "max_tokens"
    /\ EarlierTexts # {}
    /\ message.content # <<>>
    /\ message.content[1].type = "text"
    /\ outcome.value = message.content[1].text

\* C30: across one call of generate_with_retry, the total number of
\* provider calls never exceeds max_retries * max_iterations and the total
\* number of executor calls never exceeds max_retries * max_searches, for
\* every sequence of provider responses and failures.
C30_TotalCallsBounded ==
    caller = "retry" =>
        /\ all_calls.provider <= max_retries * max_iterations
        /\ all_calls.search <= max_retries * max_searches

\* three attempts, each using every iteration and every search, all failed
C30_Witness ==
    /\ caller = "retry"
    /\ max_retries = 3
    /\ wpc = "done"
    /\ wresult.kind = "raise"
    /\ all_calls.provider = 3 * max_iterations
    /\ all_calls.search = 3 * max_searches

\* C31: for every max_retries >= 0 (including 0), generate_with_retry ends
\* in one of exactly two outcomes: it returns the text of a successful
\* attempt, or it raises the failure captured from its last attempt; it
\* never ends by raising something that no attempt produced.
C31_ReturnsOrRaisesLastFailure ==
    (wpc = "done" /\ max_retries >= 0) =>
        \/ /\ wresult.kind = "return"
           /\ outcome.kind = "return"
           /\ wresult.value = outcome.value
        \/ /\ wresult.kind = "raise"
           /\ attempt >= 1
           /\ outcome.kind = "raise"
           /\ wresult.value = ExceptionOf(outcome.value, attempt - 1)

---------------------------------------------------------------------------
(* generate_news_digest_from_sources, lines 261-367 *)

\* Bound: the most items the fetch returns per region
MaxItems == 2

\* the lists of news items a fetch can return for one region
ItemLists == UNION {[1..n -> {"item"}] : n \in 0..MaxItems}

\* what fetch_recent_news comes to: a news_data dict, or an exception
FetchOutcomes ==
    [kind : {"data"}, international : ItemLists, domestic : ItemLists]
    \cup {[kind |-> "raise", international |-> <<>>, domestic |-> <<>>]}

\* NewsFetcher.format_news_for_summary: the text of the items
format_news_for_summary(news_data) ==
    "news " \o ToString(Len(news_data.international))
            \o "+" \o ToString(Len(news_data.domestic))

FallbackTopics == << "AI industry news" >>

\* the fallback taken when either list is empty
NoNewsEither(news_data) ==
    news_data.international = <<>> \/ news_data.domestic = <<>>

\* line 295: not news_data['international'] and not news_data['domestic']
NoNews(news_data) ==
    news_data.international = <<>> /\ news_data.domestic = <<>>

\* lines 307-345, 353: the single user turn of the summarization call
SummarizationTurn(news_data) ==
    [role |-> "user", ctype |-> "text",
     content |-> "create a news digest: "
                 \o format_news_for_summary(news_data)]

\* the same call made with the tool definitions of the agentic loop
SummarizeArgsWithTools(news_data) ==
    [messages |-> << SummarizationTurn(news_data) >>, tools |-> tools]

\* lines 349-355: the call is made without a tools argument
SummarizeArgs(news_data) ==
    [messages |-> << SummarizationTurn(news_data) >>, tools |-> <<>>]

\* line 358: response_text = message.content[0].text
HeadText(content) ==
    IF content = <<>> THEN [kind |-> "raise", value |-> "IndexError"]
    ELSE IF content[1].type # "text"
         THEN [kind |-> "raise", value |-> "AttributeError"]
    ELSE [kind |-> "return", value |-> content[1].text]

InitSources ==
    /\ enable_web_search \in BOOLEAN
    /\ messages = <<>>
    /\ message = NoMessage
    /\ iteration = 0
    /\ search_count = 0
    /\ response_text = None
    /\ outcome = NoOutcome
    /\ provider_calls = 0
    /\ search_calls = <<>>
    /\ search_returns = <<>>
    /\ deviations = 0
    /\ request = NoRequest
    /\ all_calls = NoCalls
    /\ pc = "idle"
    /\ caller = "sources"
    /\ max_retries = 0
    /\ attempt = 0
    /\ last_exception = None
    /\ wpc = "fetch"
    /\ wresult = NoOutcome
    /\ other = NoRun
    /\ args \in FetchOutcomes
    /\ returned = None

\* lines 290-293 raise: the except clause logs and re-raises (365-367)
FetchFails ==
    /\ wpc = "fetch"
    /\ args.kind = "raise"
    /\ wresult' = [kind |-> "raise", value |-> "FetchError"]
    /\ wpc' = "done"
    /\ UNCHANGED <<enable_web_search, runVars, sideVars, caller, max_retries,
                   attempt, last_exception>>

\* lines 295-304: nothing fetched, generate_news_digest is called
Delegate ==
    /\ wpc = "fetch"
    /\ args.kind = "data"
    /\ NoNews(args)
    /\ StartRun
    /\ other' = [pc |-> "delegate", topics |-> FallbackTopics]
    /\ wpc' = "delegated"
    /\ UNCHANGED <<enable_web_search, args, returned, caller, max_retries,
                   attempt, last_exception, wresult>>

\* the call of generate_news_digest ended: its value is returned, its
\* exception re-raised (lines 298, 365-367)
DelegateEnds ==
    /\ wpc = "delegated"
    /\ pc = "done"
    /\ wresult' = outcome
    /\ wpc' = "done"
    /\ UNCHANGED <<enable_web_search, runVars, sideVars, caller, max_retries,
                   attempt, last_exception>>

\* lines 306-367: one provider call on the fetched news; its exception is
\* re-raised, the text of its first block returned
Summarize(conts) ==
    /\ wpc = "fetch"
    /\ args.kind = "data"
    /\ ~NoNews(args)
    /\ request' = SummarizeArgs(args)
    /\ provider_calls' = provider_calls + 1
    /\ all_calls' = [all_calls EXCEPT !.provider = @ + 1]
    /\ \/ /\ message' = message
          /\ wresult' = [kind |-> "raise", value |-> "APIError"]
       \/ \E shapes \in conts, reason \in {"end_turn", "max_tokens"} :
             /\ message' = Response(reason, shapes, provider_calls + 1)
             /\ wresult' = HeadText(message'.content)
    /\ wpc' = "done"
    /\ UNCHANGED <<enable_web_search, messages, iteration, search_count,
                   response_text, pc, outcome, search_calls, search_returns,
                   deviations, sideVars, caller, max_retries, attempt,
                   last_exception>>

\* the loop of the delegated call
DelegatedRun ==
    /\ wpc = "delegated"
    /\ \/ ProviderError
       \/ EndTurn(RetryContents)
       \/ ToolUse(RetryContents, 0)
       \/ OtherStop(RetryContents)
       \/ Finish
    /\ UNCHANGED <<enable_web_search, sideVars, wrapVars>>

NextSources ==
    \/ FetchFails
    \/ Delegate
    \/ DelegatedRun
    \/ DelegateEnds
    \/ Summarize(Contents)

SpecSources == InitSources /\ [][NextSources]_vars


\* the fetch returned a news_data dict
Fetched == args.kind = "data"

\* the fetch returned no international and no domestic items
NothingFetched == args.international = <<>> /\ args.domestic = <<>>

\* generate_news_digest was called with the single fallback topic
Delegated == other # NoRun /\ other.topics = FallbackTopics

\* C32: generate_news_digest_from_sources calls generate_news_digest, with
\* the single topic 'AI industry news', exactly when the fetch returned no
\* international and no domestic items, and then ends as that call ends;
\* otherwise it makes exactly one provider call, without tool definitions,
\* and no search; an exception of the fetch or of the provider call is what
\* the method raises.
C32_DelegatesOnlyWhenNothingFetched ==
    /\ (wpc # "fetch" /\ Fetched) => (Delegated <=> NothingFetched)
    /\ (wpc # "fetch" /\ ~Fetched) => ~Delegated
    /\ (wpc = "done" /\ ~Fetched) =>
          /\ wresult = [kind |-> "raise", value |-> "FetchError"]
          /\ all_calls = NoCalls
    /\ (wpc = "done" /\ Fetched /\ NothingFetched) =>
          /\ pc = "done"
          /\ wresult = outcome
    /\ (wpc = "done" /\ Fetched /\ ~NothingFetched) =>
          /\ all_calls = [provider |-> 1, search |-> 0]
          /\ search_calls = <<>>
          /\ request.tools = <<>>
          /\ request.messages = << SummarizationTurn(args) >>
          /\ pc = "idle"
          /\ message = NoMessage =>
                wresult = [kind |-> "raise", value |-> "APIError"]

\* C32 witness: with web search enabled, a fetch with only domestic items
\* ended in one tool-less provider call whose text was returned
C32_Witness ==
    /\ wpc = "done"
    /\ enable_web_search
    /\ Fetched
    /\ args.international = <<>>
    /\ args.domestic # <<>>
    /\ all_calls.provider = 1
    /\ request.tools = <<>>
    /\ wresult.kind = "return"

---------------------------------------------------------------------------
(* setup_logger, src/logger.py lines 9-41 *)

\* Bound: the number of setup_logger calls of one behaviour
MaxCalls == 3

LoggerNames == {"news_bot", "notifier"}

\* level arguments: names in several cases, and one logging does not have
LevelArgs == {"DEBUG", "info", "Warning", "ERROR", "verbose"}

\* log_format arguments
FormatArgs == {None, "%(message)s"}

\* line 35
DefaultFormat == "%(asctime)s - %(name)s - %(levelname)s - %(message)s"

\* str.upper() on the names of LevelArgs
LevelUpper(level) ==
    CASE level = "info" -> "INFO"
      [] level = "Warning" -> "WARNING"
      [] level = "verbose" -> "VERBOSE"
      [] OTHER -> level

\* the level attributes of the logging module
logging_levels ==
    [l \in {"DEBUG", "INFO", "WARNING", "ERROR", "CRITICAL"} |->
        CASE l = "DEBUG" -> 10
          [] l = "INFO" -> 20
          [] l = "WARNING" -> 30
          [] l = "ERROR" -> 40
          [] l = "CRITICAL" -> 50]

\* getattr(logging, level.upper()) finds the attribute
HasLevel(level) == LevelUpper(level) \in DOMAIN logging_levels

\* a logger of the logging registry: NOTSET, without handlers, until set up
NewLogger == [exists |-> FALSE, level |-> 0, handlers |-> <<>>, calls |-> 0,
              returned |-> FALSE]

\* a handler is added on every call
NeedsHandlerAlways(logger) == TRUE

\* line 29: if not logger.handlers
NeedsHandler(logger) == logger.handlers = <<>>

\* lines 30-38: the stream handler with its level and formatter
Handler(level, log_format) ==
    [level |-> logging_levels[LevelUpper(level)],
     format |-> IF log_format = None THEN DefaultFormat ELSE log_format]

\* lines 25-41 on the logger of the name; line 26 raises AttributeError for
\* a level the logging module does not have, after getLogger made the logger
SetUp(logger, level, log_format) ==
    LET got == [logger EXCEPT !.exists = TRUE, !.calls = @ + 1] IN
    IF ~HasLevel(level) THEN got
    ELSE [got EXCEPT
            !.level = logging_levels[LevelUpper(level)],
            !.handlers = IF NeedsHandler(logger)
                         THEN Append(@, Handler(level, log_format))
                         ELSE @,
            !.returned = TRUE]

NoCall == [name |-> None, level |-> None, log_format |-> None]

InitLogger ==
    /\ enable_web_search = TRUE
    /\ messages = <<>>
    /\ message = NoMessage
    /\ iteration = 0
    /\ search_count = 0
    /\ response_text = None
    /\ outcome = NoOutcome
    /\ provider_calls = 0
    /\ search_calls = <<>>
    /\ search_returns = <<>>
    /\ deviations = 0
    /\ request = NoRequest
    /\ all_calls = NoCalls
    /\ pc = "logging"
    /\ caller = "logging"
    /\ max_retries = 0
    /\ attempt = 0
    /\ last_exception = None
    /\ wpc = "done"
    /\ wresult = NoOutcome
    /\ other = [calls |-> 0, loggers |-> [n \in LoggerNames |-> NewLogger]]
    /\ args = NoCall
    /\ returned = None

\* one call setup_logger(name, level, log_format)
setup_logger ==
    /\ pc = "logging"
    /\ other.calls < MaxCalls
    /\ \E name \in LoggerNames, level \in LevelArgs, log_format \in FormatArgs :
          /\ args' = [name |-> name, level |-> level,
                      log_format |-> log_format]
          /\ other' = [calls |-> other.calls + 1,
                       loggers |-> [other.loggers EXCEPT
                           ![name] = SetUp(@, level, log_format)]]
          /\ returned' = IF HasLevel(level) THEN name ELSE "AttributeError"
    /\ UNCHANGED <<enable_web_search, runVars, wrapVars>>

NextLogger == setup_logger

SpecLogger == InitLogger /\ [][NextLogger]_vars

\* the call just made was for this name and returned the logger
ReturnedFor(name) ==
    /\ other'.calls = other.calls + 1
    /\ args'.name = name
    /\ returned' = name

\* C33: after any sequence of setup_logger calls, a logger that setup_logger
\* returned has exactly one handler; the first returning call for a name adds
\* the handler, with the level and format of that call, and every later call
\* for the name adds none, leaves the handler's level and format as they
\* were, and sets the logger's own level to the level of the call.
C33_OneHandlerPerLogger ==
    /\ [](\A n \in LoggerNames :
             other.loggers[n].returned => Len(other.loggers[n].handlers) = 1)
    /\ [][\A n \in LoggerNames :
             LET before == other.loggers[n]
                 after == other'.loggers[n] IN
             /\ (ReturnedFor(n) /\ ~before.returned) =>
                   /\ before.handlers = <<>>
                   /\ after.handlers = << Handler(args'.level,
                                                  args'.log_format) >>
             /\ (ReturnedFor(n) /\ before.returned) =>
                   after.handlers = before.handlers
             /\ ReturnedFor(n) =>
                   after.level = logging_levels[LevelUpper(args'.level)]
             /\ ~ReturnedFor(n) =>
                   /\ after.handlers = before.handlers
                   /\ after.level = before.level]_vars

\* C33 witness: a third call for a logger changed its level to one that
\* differs from the level its single handler kept from the first call
C33_Witness ==
    /\ other.loggers["news_bot"].calls = 3
    /\ other.loggers["news_bot"].returned
    /\ returned = "news_bot"
    /\ Len(other.loggers["news_bot"].handlers) = 1
    /\ other.loggers["news_bot"].handlers[1].level = 10
    /\ other.loggers["news_bot"].handlers[1].format = DefaultFormat
    /\ other.loggers["news_bot"].level = 40
    /\ args.log_format # None

===========================================================================
